---- MODULE Spec2Model ----
(***************************************************************************)
(* A model of the ALS decoder: AlsParser (src/app/lib/src/als/parser.rs)   *)
(* reading a token stream into an AlsDocument and expanding it to rows.    *)
(* Text values are sequences of one-character strings, so that the         *)
(* integer/float conversions of the parser act on the text itself.         *)
(* The tokenizer, the operator tree, the document and the encoder live in  *)
(* files that are not part of the sources at hand; they are modelled from  *)
(* the written specification and marked as such in the model map.          *)
(***************************************************************************)
EXTENDS Integers, Sequences, FiniteSets, TLC

VARIABLES det, cli, config, table, input, pos, pc, doc, cur, err, rows

vars == <<det, cli, config, table, input, pos, pc, doc, cur, err, rows>>

(***************************************************************************)
(* Bounds of the model.                                                    *)
(***************************************************************************)
\* width, in bits, of the model's i64 / usize (scaled down from 64)
IntBits == 6
\* the default of max_range_expansion, scaled down from 10 000
DefaultMaxRangeExpansion == 4
\* longest stream section drawn from the full token alphabet
MaxSectionLen == 3

MAX_SUPPORTED_VERSION == 1

RECURSIVE Pow2(_)
Pow2(n) == IF n = 0 THEN 1 ELSE 2 * Pow2(n - 1)

I64Max == Pow2(IntBits - 1) - 1
I64Min == 0 - Pow2(IntBits - 1)
UsizeModulus == Pow2(IntBits)

\* `n as usize`: two's complement reinterpretation of a signed integer
AsUsize(n) == n % UsizeModulus

(***************************************************************************)
(* Text: i64::to_string and f64::to_string.                                *)
(***************************************************************************)
DigitChars == <<"0", "1", "2", "3", "4", "5", "6", "7", "8", "9">>

DigitChar(d) == DigitChars[d + 1]

DigitValue(c) == CHOOSE d \in 0..9 : DigitChars[d + 1] = c

IsDigit(c) == \E d \in 0..9 : DigitChars[d + 1] = c

RECURSIVE NatToString(_)
NatToString(n) ==
    IF n < 10 THEN <<DigitChar(n)>>
    ELSE NatToString(n \div 10) \o <<DigitChar(n % 10)>>

I64ToString(n) ==
    IF n < 0 THEN <<"-">> \o NatToString(0 - n) ELSE NatToString(n)

RECURSIVE DigitsToNat(_)
DigitsToNat(s) ==
    IF s = <<>> THEN 0
    ELSE 10 * DigitsToNat(SubSeq(s, 1, Len(s) - 1)) + DigitValue(s[Len(s)])

AllDigits(s) == s # <<>> /\ \A i \in 1..Len(s) : IsDigit(s[i])

\* A float value is kept as the decimal int.frac with frac carrying no
\* trailing zero: two literals denote the same f64 iff they agree on it.
RECURSIVE StripTrailingZeros(_)
StripTrailingZeros(s) ==
    IF s # <<>> /\ s[Len(s)] = "0"
    THEN StripTrailingZeros(SubSeq(s, 1, Len(s) - 1))
    ELSE s

FloatValue(intDigits, fracDigits) ==
    [int |-> DigitsToNat(intDigits), frac |-> StripTrailingZeros(fracDigits)]

F64ToString(f) ==
    IF f.frac = <<>> THEN NatToString(f.int)
    ELSE NatToString(f.int) \o <<".">> \o f.frac

(***************************************************************************)
(* Tokens (Token of the tokenizer).  Invalid stands for a place where the  *)
(* tokenizer returns an error instead of a token.                          *)
(***************************************************************************)
Tok(k) == [k |-> k]
TVersionAls(v) == [k |-> "Version", als |-> TRUE, v |-> v]
TVersionCtx == [k |-> "Version", als |-> FALSE, v |-> 0]
TDictionaryHeader(name, values) ==
    [k |-> "DictionaryHeader", name |-> name, values |-> values]
TSchemaColumn(name) == [k |-> "SchemaColumn", name |-> name]
TInteger(n) == [k |-> "Integer", n |-> n]
TFloat(f) == [k |-> "Float", f |-> f]
TRawValue(s) == [k |-> "RawValue", s |-> s]
TDictRef(i) == [k |-> "DictRef", i |-> i]
TRangeOp == Tok("RangeOp")
TMultiplyOp == Tok("MultiplyOp")
TToggleOp == Tok("ToggleOp")
TStepSeparator == Tok("StepSeparator")
TColumnSeparator == Tok("ColumnSeparator")
TOpenParen == Tok("OpenParen")
TCloseParen == Tok("CloseParen")
TNewline == Tok("Newline")
TEof == Tok("Eof")
TInvalid == Tok("Invalid")

(***************************************************************************)
(* Errors (AlsError).                                                      *)
(***************************************************************************)
NoErr == [kind |-> "none"]
AlsSyntaxError(p) == [kind |-> "AlsSyntaxError", position |-> p]
VersionMismatch(e, f) == [kind |-> "VersionMismatch", expected |-> e, found |-> f]
ColumnMismatch(s, d) == [kind |-> "ColumnMismatch", schema |-> s, data |-> d]
RangeOverflow(s, e, p) == [kind |-> "RangeOverflow", start |-> s, end |-> e, step |-> p]
InvalidDictRef(i, n) == [kind |-> "InvalidDictRef", index |-> i, size |-> n]

(***************************************************************************)
(* Operators (AlsOperator).                                                *)
(***************************************************************************)
NoOp == [t |-> "none"]
Raw(s) == [t |-> "Raw", v |-> s]
DictRef(i) == [t |-> "DictRef", i |-> i]
Range(s, e, p) == [t |-> "Range", start |-> s, end |-> e, step |-> p]
Multiply(v, n) == [t |-> "Multiply", value |-> v, count |-> n]
Toggle(vs, n) == [t |-> "Toggle", values |-> vs, count |-> n]

\* results of the fallible functions: Ok(val) at tokenizer position pos, or Err(err)
Okay(val, p) == [ok |-> TRUE, val |-> val, pos |-> p, err |-> NoErr]
Fail(e, p) == [ok |-> FALSE, val |-> NoOp, pos |-> p, err |-> e]

\* number of values of start, start+step, ... up to end (inclusive)
RangeCount(s, e, p) ==
    IF p > 0 THEN (e - s) \div p + 1 ELSE (s - e) \div (0 - p) + 1

\* AlsOperator::range_safe_with_limit
range_safe_with_limit(s, e, p, limit) ==
    IF p = 0 \/ (p > 0 /\ e < s) \/ (p < 0 /\ e > s)
    THEN Fail(RangeOverflow(s, e, p), 0)
    ELSE IF e - s > I64Max \/ e - s < I64Min
    THEN Fail(RangeOverflow(s, e, p), 0)
    ELSE IF RangeCount(s, e, p) > limit
    THEN Fail(RangeOverflow(s, e, p), 0)
    ELSE Okay(Range(s, e, p), 0)

(***************************************************************************)
(* Expansion (AlsOperator::expand, ColumnStream::expand).                  *)
(***************************************************************************)
RECURSIVE RangeValues(_, _, _)
RangeValues(s, e, p) ==
    IF (p > 0 /\ s > e) \/ (p < 0 /\ s < e) THEN <<>>
    ELSE <<I64ToString(s)>> \o RangeValues(s + p, e, p)

RECURSIVE Repeat(_, _)
Repeat(xs, n) == IF n = 0 THEN <<>> ELSE xs \o Repeat(xs, n - 1)

ToggleValues(vs, n) == [i \in 1..n |-> vs[((i - 1) % Len(vs)) + 1]]

\* the number of values an operator expands to, without expanding it
RECURSIVE expanded_count(_)
expanded_count(op) ==
    CASE op.t = "Raw" -> 1
      [] op.t = "DictRef" -> 1
      [] op.t = "Range" -> RangeCount(op.start, op.end, op.step)
      [] op.t = "Multiply" -> op.count * expanded_count(op.value)
      [] op.t = "Toggle" -> op.count

\* dict is the sequence of entries of the default dictionary, <<>> if absent
RECURSIVE expand_operator(_, _)
expand_operator(op, dict) ==
    CASE op.t = "Raw" -> Okay(<<op.v>>, 0)
      [] op.t = "DictRef" ->
            IF op.i < Len(dict) THEN Okay(<<dict[op.i + 1]>>, 0)
            ELSE Fail(InvalidDictRef(op.i, Len(dict)), 0)
      [] op.t = "Range" -> Okay(RangeValues(op.start, op.end, op.step), 0)
      [] op.t = "Multiply" ->
            LET inner == expand_operator(op.value, dict) IN
            IF inner.ok THEN Okay(Repeat(inner.val, op.count), 0) ELSE inner
      [] op.t = "Toggle" -> Okay(ToggleValues(op.values, op.count), 0)

RECURSIVE StreamCount(_)
StreamCount(stream) ==
    IF stream = <<>> THEN 0
    ELSE expanded_count(Head(stream)) + StreamCount(Tail(stream))

RECURSIVE ConcatExpand(_, _)
ConcatExpand(stream, dict) ==
    IF stream = <<>> THEN Okay(<<>>, 0)
    ELSE LET h == expand_operator(Head(stream), dict) IN
         IF ~h.ok THEN h
         ELSE LET r == ConcatExpand(Tail(stream), dict) IN
              IF r.ok THEN Okay(h.val \o r.val, 0) ELSE r

\* ColumnStream::expand with no bound on the whole stream
stream_expand_unbounded(stream, dict) == ConcatExpand(stream, dict)

\* ColumnStream::expand: the bound is checked on the whole stream, before
\* any value is produced.  It is called with the dictionary only (parser.rs,
\* line 334), so the bound it knows is the default one.
stream_expand(stream, dict) ==
    IF StreamCount(stream) > DefaultMaxRangeExpansion
    THEN Fail(RangeOverflow(0, 0, 0), 0)
    ELSE ConcatExpand(stream, dict)

(***************************************************************************)
(* The tokenizer as the parser sees it: p tokens have been consumed.       *)
(***************************************************************************)
AtInvalid(toks, p) == p < Len(toks) /\ toks[p + 1].k = "Invalid"

peek_token(toks, p) == IF p < Len(toks) THEN toks[p + 1] ELSE TEof

\* position after next_token
Adv(toks, p) == IF p < Len(toks) THEN p + 1 ELSE p

\* the error of peek_token()? / next_token()? at an invalid place
LexError(p) == Fail(AlsSyntaxError(p), p)

(***************************************************************************)
(* AlsParser: the element parsers.                                         *)
(***************************************************************************)
expect_integer(toks, p) ==
    IF AtInvalid(toks, p) THEN LexError(p)
    ELSE LET t == peek_token(toks, p) IN
         IF t.k = "Integer" THEN Okay(t.n, Adv(toks, p))
         ELSE Fail(AlsSyntaxError(Adv(toks, p)), Adv(toks, p))

expect_value(toks, p) ==
    IF AtInvalid(toks, p) THEN LexError(p)
    ELSE LET t == peek_token(toks, p) IN
         CASE t.k = "Integer" -> Okay(I64ToString(t.n), Adv(toks, p))
           [] t.k = "Float" -> Okay(F64ToString(t.f), Adv(toks, p))
           [] t.k = "RawValue" -> Okay(t.s, Adv(toks, p))
           [] OTHER -> Fail(AlsSyntaxError(Adv(toks, p)), Adv(toks, p))

\* `X * count` once X is parsed and the tokenizer stands at p: the shared
\* tail of parse_range and parse_grouped_element
MultiplyTail(toks, p, inner) ==
    IF AtInvalid(toks, p) THEN LexError(p)
    ELSE IF peek_token(toks, p).k = "MultiplyOp"
    THEN LET c == expect_integer(toks, p + 1) IN
         IF c.ok THEN Okay(Multiply(inner, AsUsize(c.val)), c.pos) ELSE c
    ELSE Okay(inner, p)

\* parse_range with the implied step always 1
parse_range_ascending(toks, p, start) ==
    LET e == expect_integer(toks, p) IN
    IF ~e.ok THEN e
    ELSE IF AtInvalid(toks, e.pos) THEN LexError(e.pos)
    ELSE LET hasStep == peek_token(toks, e.pos).k = "StepSeparator"
             s == IF hasStep THEN expect_integer(toks, e.pos + 1) ELSE Okay(1, e.pos)
         IN IF ~s.ok THEN s
            ELSE LET r == range_safe_with_limit(start, e.val, s.val,
                                                config.max_range_expansion) IN
                 IF ~r.ok THEN Fail(r.err, s.pos)
                 ELSE MultiplyTail(toks, s.pos, r.val)

\* parse_range that does not hand the configured limit on
parse_range_unchecked(toks, p, start) ==
    LET e == expect_integer(toks, p) IN
    IF ~e.ok THEN e
    ELSE IF AtInvalid(toks, e.pos) THEN LexError(e.pos)
    ELSE LET hasStep == peek_token(toks, e.pos).k = "StepSeparator"
             s == IF hasStep THEN expect_integer(toks, e.pos + 1)
                  ELSE Okay(IF e.val >= start THEN 1 ELSE 0 - 1, e.pos)
         IN IF ~s.ok THEN s
            ELSE LET r == range_safe_with_limit(start, e.val, s.val, UsizeModulus) IN
                 IF ~r.ok THEN Fail(r.err, s.pos)
                 ELSE MultiplyTail(toks, s.pos, r.val)

parse_range(toks, p, start) ==
    LET e == expect_integer(toks, p) IN
    IF ~e.ok THEN e
    ELSE IF AtInvalid(toks, e.pos) THEN LexError(e.pos)
    ELSE LET hasStep == peek_token(toks, e.pos).k = "StepSeparator"
             s == IF hasStep THEN expect_integer(toks, e.pos + 1)
                  ELSE Okay(IF e.val >= start THEN 1 ELSE 0 - 1, e.pos)
         IN IF ~s.ok THEN s
            ELSE LET r == range_safe_with_limit(start, e.val, s.val,
                                                config.max_range_expansion) IN
                 IF ~r.ok THEN Fail(r.err, s.pos)
                 ELSE MultiplyTail(toks, s.pos, r.val)

RECURSIVE toggle_values(_, _, _)
toggle_values(toks, p, values) ==
    IF AtInvalid(toks, p) THEN LexError(p)
    ELSE IF peek_token(toks, p).k = "ToggleOp"
    THEN LET v == expect_value(toks, p + 1) IN
         IF v.ok THEN toggle_values(toks, v.pos, Append(values, v.val)) ELSE v
    ELSE Okay(values, p)

\* parse_toggle whose default count is that of a two-valued toggle
parse_toggle_pair(toks, p, first_value) ==
    LET second == expect_value(toks, p) IN
    IF ~second.ok THEN second
    ELSE LET vs == toggle_values(toks, second.pos, <<first_value, second.val>>) IN
         IF ~vs.ok THEN vs
         ELSE IF AtInvalid(toks, vs.pos) THEN LexError(vs.pos)
         ELSE IF peek_token(toks, vs.pos).k = "MultiplyOp"
         THEN LET c == expect_integer(toks, vs.pos + 1) IN
              IF c.ok THEN Okay(Toggle(vs.val, AsUsize(c.val)), c.pos) ELSE c
         ELSE Okay(Toggle(vs.val, 2), vs.pos)

\* parse_toggle reading `*n` as a Multiply around the one-cycle toggle
parse_toggle_multiplied(toks, p, first_value) ==
    LET second == expect_value(toks, p) IN
    IF ~second.ok THEN second
    ELSE LET vs == toggle_values(toks, second.pos, <<first_value, second.val>>) IN
         IF ~vs.ok THEN vs
         ELSE IF AtInvalid(toks, vs.pos) THEN LexError(vs.pos)
         ELSE IF peek_token(toks, vs.pos).k = "MultiplyOp"
         THEN LET c == expect_integer(toks, vs.pos + 1) IN
              IF c.ok THEN Okay(Multiply(Toggle(vs.val, Len(vs.val)), AsUsize(c.val)), c.pos)
              ELSE c
         ELSE Okay(Toggle(vs.val, Len(vs.val)), vs.pos)

parse_toggle(toks, p, first_value) ==
    LET second == expect_value(toks, p) IN
    IF ~second.ok THEN second
    ELSE LET vs == toggle_values(toks, second.pos, <<first_value, second.val>>) IN
         IF ~vs.ok THEN vs
         ELSE IF AtInvalid(toks, vs.pos) THEN LexError(vs.pos)
         ELSE IF peek_token(toks, vs.pos).k = "MultiplyOp"
         THEN LET c == expect_integer(toks, vs.pos + 1) IN
              IF c.ok THEN Okay(Toggle(vs.val, AsUsize(c.val)), c.pos) ELSE c
         ELSE Okay(Toggle(vs.val, Len(vs.val)), vs.pos)

\* parse_float_element and parse_raw_element: a literal whose text is value
parse_literal_element(toks, p, value) ==
    IF AtInvalid(toks, p) THEN LexError(p)
    ELSE LET t == peek_token(toks, p) IN
         CASE t.k = "MultiplyOp" ->
                LET c == expect_integer(toks, p + 1) IN
                IF c.ok THEN Okay(Multiply(Raw(value), AsUsize(c.val)), c.pos) ELSE c
           [] t.k = "ToggleOp" -> parse_toggle(toks, p + 1, value)
           [] OTHER -> Okay(Raw(value), p)

parse_float_element(toks, p, f) == parse_literal_element(toks, p, F64ToString(f))

parse_raw_element(toks, p, s) == parse_literal_element(toks, p, s)

parse_integer_element(toks, p, start) ==
    IF AtInvalid(toks, p) THEN LexError(p)
    ELSE IF peek_token(toks, p).k = "RangeOp" THEN parse_range(toks, p + 1, start)
    ELSE parse_literal_element(toks, p, I64ToString(start))

\* p is the position after first_token (parse_element), after `(` (parse_grouped_element)
RECURSIVE parse_element(_, _, _), parse_grouped_element(_, _)
\* parse_grouped_element that leaves a `*n` after the group unread
parse_grouped_element_bare(toks, p) ==
    IF AtInvalid(toks, p) THEN LexError(p)
    ELSE LET inner == parse_element(toks, Adv(toks, p), peek_token(toks, p)) IN
         IF ~inner.ok THEN inner
         ELSE IF AtInvalid(toks, inner.pos) THEN LexError(inner.pos)
         ELSE IF peek_token(toks, inner.pos).k # "CloseParen"
         THEN Fail(AlsSyntaxError(Adv(toks, inner.pos)), Adv(toks, inner.pos))
         ELSE Okay(inner.val, inner.pos + 1)

parse_grouped_element(toks, p) ==
    IF AtInvalid(toks, p) THEN LexError(p)
    ELSE LET inner == parse_element(toks, Adv(toks, p), peek_token(toks, p)) IN
         IF ~inner.ok THEN inner
         ELSE IF AtInvalid(toks, inner.pos) THEN LexError(inner.pos)
         ELSE IF peek_token(toks, inner.pos).k # "CloseParen"
         THEN Fail(AlsSyntaxError(Adv(toks, inner.pos)), Adv(toks, inner.pos))
         ELSE MultiplyTail(toks, inner.pos + 1, inner.val)

parse_element(toks, p, first_token) ==
    CASE first_token.k = "Integer" -> parse_integer_element(toks, p, first_token.n)
      [] first_token.k = "Float" -> parse_float_element(toks, p, first_token.f)
      [] first_token.k = "RawValue" -> parse_raw_element(toks, p, first_token.s)
      [] first_token.k = "DictRef" -> Okay(DictRef(first_token.i), p)
      [] first_token.k = "OpenParen" -> parse_grouped_element(toks, p)
      [] OTHER -> Fail(AlsSyntaxError(p), p)

(***************************************************************************)
(* The document (AlsDocument) and the state of one parse.                  *)
(***************************************************************************)
\* AlsDocument::new
NewDocument ==
    [version |-> 1, format_indicator |-> "Als", dictionaries |-> <<>>,
     schema |-> <<>>, streams |-> <<>>]

\* AlsDocument::default_dictionary, with <<>> for None
default_dictionary(d) ==
    IF "default" \in DOMAIN d.dictionaries THEN d.dictionaries["default"] ELSE <<>>

RECURSIVE skip_whitespace_tokens(_, _)
skip_whitespace_tokens(toks, p) ==
    IF AtInvalid(toks, p) THEN LexError(p)
    ELSE IF peek_token(toks, p).k = "Newline" THEN skip_whitespace_tokens(toks, p + 1)
    ELSE Okay(NoOp, p)

(***************************************************************************)
(* The encoder side, for the round trip: compressor, serializer and the    *)
(* tokenizer's reading of a literal.                                       *)
(***************************************************************************)
TLiteral(s) == [k |-> "Literal", s |-> s]

\* position of the single "." of s, 0 if there is none or more than one
DotAt(s) ==
    IF Cardinality({i \in 1..Len(s) : s[i] = "."}) = 1
    THEN CHOOSE i \in 1..Len(s) : s[i] = "."
    ELSE 0

\* Tokenizer: a bare literal becomes Integer, Float or RawValue
TokenizeLiteral(s) ==
    IF AllDigits(s)
    THEN IF DigitsToNat(s) > I64Max THEN TInvalid ELSE TInteger(DigitsToNat(s))
    ELSE IF Len(s) > 1 /\ s[1] = "-" /\ AllDigits(Tail(s))
    THEN IF DigitsToNat(Tail(s)) > 0 - I64Min THEN TInvalid
         ELSE TInteger(0 - DigitsToNat(Tail(s)))
    ELSE IF DotAt(s) > 1 /\ DotAt(s) < Len(s)
            /\ AllDigits(SubSeq(s, 1, DotAt(s) - 1))
            /\ AllDigits(SubSeq(s, DotAt(s) + 1, Len(s)))
    THEN TFloat(FloatValue(SubSeq(s, 1, DotAt(s) - 1), SubSeq(s, DotAt(s) + 1, Len(s))))
    ELSE TRawValue(s)

Tokenize(text) ==
    [i \in 1..Len(text) |->
        IF text[i].k = "Literal" THEN TokenizeLiteral(text[i].s) ELSE text[i]]

RECURSIVE ToggleText(_)
ToggleText(values) ==
    IF Len(values) = 1 THEN <<TLiteral(values[1])>>
    ELSE <<TLiteral(values[1]), TToggleOp>> \o ToggleText(Tail(values))

\* serializer: one operator
RECURSIVE SerializeOperator(_)
SerializeOperator(op) ==
    CASE op.t = "Raw" -> <<TLiteral(op.v)>>
      [] op.t = "DictRef" -> <<TDictRef(op.i)>>
      [] op.t = "Range" ->
            <<TLiteral(I64ToString(op.start)), TRangeOp, TLiteral(I64ToString(op.end))>>
            \o (IF op.step = (IF op.end >= op.start THEN 1 ELSE 0 - 1) THEN <<>>
                ELSE <<TStepSeparator, TLiteral(I64ToString(op.step))>>)
      [] op.t = "Multiply" ->
            (IF op.value.t \in {"Range", "Toggle", "Multiply"}
             THEN <<TOpenParen>> \o SerializeOperator(op.value) \o <<TCloseParen>>
             ELSE SerializeOperator(op.value))
            \o <<TMultiplyOp, TLiteral(NatToString(op.count))>>
      [] op.t = "Toggle" ->
            ToggleText(op.values) \o <<TMultiplyOp, TLiteral(NatToString(op.count))>>

RECURSIVE SerializeStream(_)
SerializeStream(stream) ==
    IF stream = <<>> THEN <<>>
    ELSE SerializeOperator(Head(stream)) \o SerializeStream(Tail(stream))

RECURSIVE SerializeStreams(_)
SerializeStreams(streams) ==
    IF streams = <<>> THEN <<>>
    ELSE IF Len(streams) = 1 THEN SerializeStream(streams[1])
    ELSE SerializeStream(streams[1]) \o <<TColumnSeparator>> \o SerializeStreams(Tail(streams))

\* AlsSerializer::serialize: version line, schema line, streams separated by |
Serialize(d) ==
    <<IF d.format_indicator = "Ctx" THEN TVersionCtx ELSE TVersionAls(d.version), TNewline>>
    \o [i \in 1..Len(d.schema) |-> TSchemaColumn(d.schema[i])]
    \o <<TNewline>>
    \o SerializeStreams(d.streams)

\* the encodings the pattern engine may give a column: the flat sequence of
\* Raw cells, or one Multiply when all cells are equal
FlatStream(values) == [i \in 1..Len(values) |-> Raw(values[i])]

ColumnEncodings(values) ==
    {FlatStream(values)}
    \cup (IF Len(values) >= 2 /\ \A i \in 1..Len(values) : values[i] = values[1]
          THEN {<<Multiply(Raw(values[1]), Len(values))>>} ELSE {})

\* AlsCompressor::compress: the documents it may give for table t, in the
\* ALS flavour or in the CTX fallback where every cell is a Raw
Compressions(t) ==
    {[version |-> 1, format_indicator |-> "Als", dictionaries |-> <<>>,
      schema |-> [i \in 1..Len(t) |-> t[i].name], streams |-> ss] :
        ss \in {f \in [1..Len(t) -> UNION {ColumnEncodings(t[i].values) : i \in 1..Len(t)}] :
                    \A i \in 1..Len(t) : f[i] \in ColumnEncodings(t[i].values)}}
    \cup
    {[version |-> 1, format_indicator |-> "Ctx", dictionaries |-> <<>>,
      schema |-> [i \in 1..Len(t) |-> t[i].name],
      streams |-> [i \in 1..Len(t) |-> FlatStream(t[i].values)]]}

(***************************************************************************)
(* The inputs of the model.                                                *)
(***************************************************************************)
\* most cells of a table drawn for the round trip
MaxTableCells == 2

Text(c) == <<c>>

SeqsUpTo(S, n) == UNION {[1..k -> S] : k \in 0..n}

RECURSIVE Flatten(_)
Flatten(ss) == IF ss = <<>> THEN <<>> ELSE Head(ss) \o Flatten(Tail(ss))

DefaultHeader == TDictionaryHeader("default", <<Text("r"), Text("g")>>)

\* every token kind the stream section can hold
StreamAlphabet ==
    {TInteger(1), TRawValue(Text("x")), TDictRef(0),
     TRangeOp, TMultiplyOp, TToggleOp, TStepSeparator, TColumnSeparator,
     TOpenParen, TCloseParen, TNewline, TInvalid}

VersionLines ==
    {<<>>, <<TVersionCtx, TNewline>>, <<TNewline, TVersionAls(1)>>}
    \cup {<<TVersionAls(v), TNewline>> : v \in {0, 1, 2, 255}}

DictionaryLines ==
    {<<>>, <<DefaultHeader, TNewline>>,
     <<TDictionaryHeader("other", <<Text("b")>>), TNewline>>,
     <<TDictionaryHeader("other", <<Text("b")>>), TNewline, DefaultHeader, TNewline>>}

SchemaLines ==
    {<<>>, <<TSchemaColumn("a"), TNewline>>,
     <<TSchemaColumn("a"), TSchemaColumn("b"), TNewline>>,
     <<TSchemaColumn("a"), TSchemaColumn("a"), TSchemaColumn("c"), TNewline>>}

\* the default of max_nesting_depth
DefaultMaxNestingDepth == 4

\* the text of x*2 under d Multiply in all: (...((x*2)*2)...*2), in parentheses
RECURSIVE NestedMultiply(_)
NestedMultiply(d) ==
    IF d = 1 THEN <<TOpenParen, TRawValue(Text("x")), TMultiplyOp, TInteger(2), TCloseParen>>
    ELSE <<TOpenParen>> \o NestedMultiply(d - 1) \o <<TMultiplyOp, TInteger(2), TCloseParen>>

\* well-formed and ill-formed elements as the serializer or a user writes them
Elements ==
    {<<TInteger(1)>>, <<TRawValue(Text("x"))>>, <<TFloat(FloatValue(<<"1">>, <<"5">>))>>,
     <<TDictRef(0)>>, <<TDictRef(2)>>,
     <<TInteger(1), TRangeOp, TInteger(3)>>,
     <<TInteger(3), TRangeOp, TInteger(1)>>,
     <<TInteger(1), TRangeOp, TInteger(1)>>,
     <<TInteger(1), TRangeOp, TInteger(3), TStepSeparator, TInteger(2)>>,
     <<TInteger(3), TRangeOp, TInteger(1), TStepSeparator, TInteger(0 - 1)>>,
     <<TInteger(1), TRangeOp, TInteger(3), TStepSeparator, TInteger(0)>>,
     <<TInteger(1), TRangeOp, TInteger(3), TStepSeparator, TInteger(0 - 1)>>,
     <<TInteger(1), TRangeOp, TInteger(7)>>,
     <<TInteger(1), TRangeOp, TInteger(7), TMultiplyOp, TInteger(2)>>,
     <<TOpenParen, TInteger(1), TRangeOp, TInteger(7), TCloseParen, TMultiplyOp, TInteger(2)>>,
     <<TInteger(I64Min), TRangeOp, TInteger(I64Max), TStepSeparator, TInteger(I64Max)>>,
     <<TInteger(1), TRangeOp, TInteger(2), TMultiplyOp, TInteger(2)>>,
     <<TInteger(1), TRangeOp, TInteger(3), TMultiplyOp, TInteger(2)>>,
     <<TRawValue(Text("x")), TMultiplyOp, TInteger(2)>>,
     <<TRawValue(Text("x")), TMultiplyOp, TInteger(7)>>,
     <<TRawValue(Text("x")), TMultiplyOp, TInteger(0 - 1)>>,
     <<TRawValue(Text("x")), TToggleOp, TRawValue(Text("y"))>>,
     <<TRawValue(Text("x")), TToggleOp, TInteger(1), TToggleOp, TRawValue(Text("y"))>>,
     <<TRawValue(Text("x")), TToggleOp, TRawValue(Text("y")), TMultiplyOp, TInteger(3)>>,
     <<TOpenParen, TRawValue(Text("x")), TCloseParen>>,
     <<TOpenParen, TInteger(1), TRangeOp, TInteger(2), TCloseParen, TMultiplyOp, TInteger(2)>>,
     <<TOpenParen, TInteger(1), TRangeOp, TInteger(3), TCloseParen, TMultiplyOp, TInteger(2)>>,
     <<TOpenParen, TDictRef(0), TDictRef(1), TCloseParen, TMultiplyOp, TInteger(2)>>,
     <<TDictRef(0), TMultiplyOp, TInteger(2)>>,
     <<TOpenParen, TDictRef(0), TCloseParen, TMultiplyOp, TInteger(2)>>,
     <<TOpenParen, TOpenParen, TDictRef(2), TCloseParen, TMultiplyOp, TInteger(1),
       TCloseParen, TMultiplyOp, TInteger(1)>>,
     NestedMultiply(DefaultMaxNestingDepth), NestedMultiply(DefaultMaxNestingDepth + 2)}

\* streams of at most two elements, sections of at most three streams
ElementStreams == {Flatten(es) : es \in SeqsUpTo(Elements, 2)}

ShortStreams == {Flatten(es) : es \in SeqsUpTo(Elements, 1)}

JoinStreams(a, b) == a \o <<TColumnSeparator>> \o b

ElementSections ==
    ElementStreams
    \cup {JoinStreams(a, b) : a \in ShortStreams, b \in ShortStreams}
    \cup {JoinStreams(JoinStreams(a, b), <<>>) : a \in ShortStreams, b \in ShortStreams}

FewSections ==
    {<<>>, <<TInteger(1)>>, <<TInvalid>>,
     <<TInteger(1), TNewline, TRangeOp, TInteger(3)>>,
     <<TRawValue(Text("x")), TMultiplyOp, TNewline, TInteger(2)>>,
     <<TRawValue(Text("a")), TToggleOp, TRawValue(Text("b")), TMultiplyOp, TInteger(0 - 2)>>,
     <<TOpenParen, TInteger(1), TRangeOp, TInteger(3), TCloseParen, TMultiplyOp,
       TInteger(0 - 1)>>,
     <<TRawValue(Text("x")), TToggleOp, TInteger(1), TToggleOp, TRawValue(Text("y")),
       TMultiplyOp, TInteger(2)>>,
     <<TDictRef(0), TOpenParen, TDictRef(1), TCloseParen, TMultiplyOp, TInteger(2)>>,
     <<TInteger(1), TRangeOp, TInteger(3), TColumnSeparator,
       TRawValue(Text("x")), TRawValue(Text("y"))>>,
     <<TInteger(1), TColumnSeparator, TInteger(1), TColumnSeparator, TInteger(1)>>,
     <<TInteger(1), TColumnSeparator, TRawValue(Text("x")), TRawValue(Text("y")),
       TColumnSeparator, TInteger(1), TRangeOp, TInteger(3)>>}

Inputs ==
    {v \o d \o s \o x : v \in VersionLines, d \in DictionaryLines,
                        s \in SchemaLines, x \in FewSections}
    \cup {<<DefaultHeader, TNewline>> \o s \o x :
            s \in {<<TSchemaColumn("a"), TNewline>>,
                   <<TSchemaColumn("a"), TSchemaColumn("b"), TNewline>>},
            x \in SeqsUpTo(StreamAlphabet, MaxSectionLen)}
    \cup {<<DefaultHeader, TNewline>> \o s \o x :
            s \in SchemaLines \ {<<>>}, x \in ElementSections}

\* inputs read by a parser whose configuration is not the default one
ConfiguredInputs ==
    {<<DefaultHeader, TNewline, TSchemaColumn("a"), TNewline>> \o x : x \in ElementStreams}

CellTexts == {<<"1">>, <<"0", "1">>, <<"1", ".", "5", "0">>, <<"a">>, <<"7">>}

ColumnNames == <<"a", "b", "c">>

\* tables of c columns and r rows with at most MaxTableCells cells
TablesOf(c, r) ==
    {[j \in 1..c |-> [name |-> ColumnNames[j], values |-> cells[j]]] :
        cells \in [1..c -> [1..r -> CellTexts]]}

TableShapes ==
    {sh \in (1..Len(ColumnNames)) \X (0..MaxTableCells) : sh[1] * sh[2] <= MaxTableCells}

Tables == UNION {TablesOf(sh[1], sh[2]) : sh \in TableShapes}

NoTable == [present |-> FALSE, columns |-> <<>>]

(***************************************************************************)
(* The pattern detectors (src/app/lib/src/pattern/combined.rs).  A result  *)
(* carries its operator and its compression ratio; the ratio is kept as    *)
(* original_len / (cost + log10(repeats)), which is what the code computes *)
(* in floating point, so that two ratios compare exactly.                  *)
(***************************************************************************)
\* longest column handed to a detector
MaxValues == 6

\* None, and Some(DetectionResult)
NoResult ==
    [found |-> FALSE, operator |-> NoOp, original_len |-> 0, cost |-> 1, repeats |-> 1,
     pattern_type |-> "None"]

SomeResult(op, original_len, cost, repeats, pattern_type) ==
    [found |-> TRUE, operator |-> op, original_len |-> original_len, cost |-> cost,
     repeats |-> repeats, pattern_type |-> pattern_type]

RECURSIVE Pow10(_)
Pow10(n) == IF n = 0 THEN 1 ELSE 10 * Pow10(n - 1)

\* cost + log10(repeats) of a is less than that of b
DenominatorLess(a, b) ==
    IF a.cost >= b.cost
    THEN a.cost - b.cost < 9 /\ Pow10(a.cost - b.cost) * a.repeats < b.repeats
    ELSE b.cost - a.cost >= 9 \/ a.repeats < Pow10(b.cost - a.cost) * b.repeats

\* a.compression_ratio > b.compression_ratio, for results on the same values
RatioGreater(a, b) == DenominatorLess(a, b)

\* r.compression_ratio > 1.0
RatioAboveOne(r) ==
    DenominatorLess(r, [cost |-> r.original_len, repeats |-> 1])

\* str::parse::<i64>: an optional sign and decimal digits
parse_i64(s) ==
    IF AllDigits(s) /\ DigitsToNat(s) <= I64Max THEN [ok |-> TRUE, val |-> DigitsToNat(s)]
    ELSE IF Len(s) > 1 /\ s[1] = "-" /\ AllDigits(Tail(s)) /\ DigitsToNat(Tail(s)) <= 0 - I64Min
    THEN [ok |-> TRUE, val |-> 0 - DigitsToNat(Tail(s))]
    ELSE [ok |-> FALSE, val |-> 0]

\* the length of the decimal text of n
DecimalLen(n) == Len(I64ToString(n))

Abs(n) == IF n < 0 THEN 0 - n ELSE n

\* calculate_original_length: the cost of the raw encoding
RECURSIVE SumLen(_)
SumLen(values) == IF values = <<>> THEN 0 ELSE Len(Head(values)) + SumLen(Tail(values))

calculate_original_length(values) ==
    SumLen(values) + (IF Len(values) = 0 THEN 0 ELSE Len(values) - 1)

\* the estimated cost of s>e or s>e:p
RangeCost(s, e, p) ==
    DecimalLen(s) + 1 + DecimalLen(e) + (IF Abs(p) > 1 THEN 1 + DecimalLen(p) ELSE 0)

\* RangeDetector::detect with minimum length L
RangeDetector_detect(values, L) ==
    IF Len(values) < L \/ Len(values) < 2 THEN NoResult
    ELSE IF \E i \in 1..Len(values) : ~parse_i64(values[i]).ok THEN NoResult
    ELSE LET ints == [i \in 1..Len(values) |-> parse_i64(values[i]).val]
             p == ints[2] - ints[1]
         IN IF p # 0 /\ \A i \in 1..(Len(ints) - 1) : ints[i + 1] - ints[i] = p
            THEN SomeResult(Range(ints[1], ints[Len(ints)], p),
                            calculate_original_length(values),
                            RangeCost(ints[1], ints[Len(ints)], p), 1, "Range")
            ELSE NoResult

\* values[i] == values[i mod k] for all i
Tiles(values, k) == \A i \in 1..Len(values) : values[i] = values[((i - 1) % k) + 1]

\* ToggleDetector::detect with minimum length L
ToggleDetector_detect(values, L) ==
    IF Len(values) < L \/ Len(values) < 2 THEN NoResult
    ELSE LET k == CHOOSE k \in 2..Len(values) :
                    Tiles(values, k) /\ \A l \in 2..(k - 1) : ~Tiles(values, l)
         IN SomeResult(Toggle(SubSeq(values, 1, k), Len(values)),
                       calculate_original_length(values),
                       (k - 1) + SumLen(SubSeq(values, 1, k)) + 1 + DecimalLen(Len(values)),
                       1, "Toggle")

\* DetectionResult::repeated_range
repeated_range(start, end, step, repeat_count, original_len) ==
    SomeResult(Multiply(Range(start, end, step), repeat_count), original_len,
               RangeCost(start, end, step) + 3 + DecimalLen(repeat_count), 1, "RepeatedRange")

\* the comparison of the second chunk alone with the pattern
is_repeated_once(values, pattern_len) ==
    \A i \in 1..pattern_len : values[pattern_len + i] = values[i]

\* the first pattern_len values repeat over the whole of values
is_repeated(values, pattern_len) ==
    \A i \in 1..Len(values) : values[i] = values[((i - 1) % pattern_len) + 1]

\* the loop of detect_repeated_range from pattern_len on
RECURSIVE repeated_range_from(_, _)
repeated_range_from(values, pattern_len) ==
    IF pattern_len > Len(values) \div 2 THEN NoResult
    ELSE IF Len(values) % pattern_len # 0 \/ Len(values) \div pattern_len < 2
            \/ ~is_repeated(values, pattern_len)
    THEN repeated_range_from(values, pattern_len + 1)
    ELSE LET range_result == RangeDetector_detect(SubSeq(values, 1, pattern_len), 2) IN
         IF range_result.found
         THEN repeated_range(range_result.operator.start, range_result.operator.end,
                             range_result.operator.step, Len(values) \div pattern_len,
                             calculate_original_length(values))
         ELSE repeated_range_from(values, pattern_len + 1)

detect_repeated_range(values) ==
    IF Len(values) < 4 THEN NoResult ELSE repeated_range_from(values, 2)

\* the loop of detect_repeated_toggle from pattern_len on
RECURSIVE repeated_toggle_from(_, _)
repeated_toggle_from(values, pattern_len) ==
    IF pattern_len > Len(values) \div 2 THEN NoResult
    ELSE IF Len(values) % pattern_len # 0 \/ Len(values) \div pattern_len < 2
            \/ ~is_repeated(values, pattern_len)
    THEN repeated_toggle_from(values, pattern_len + 1)
    ELSE LET toggle_result == ToggleDetector_detect(SubSeq(values, 1, pattern_len), 2) IN
         IF toggle_result.found
         THEN SomeResult(Multiply(Toggle(toggle_result.operator.values, pattern_len),
                                  Len(values) \div pattern_len),
                         calculate_original_length(values),
                         11, Len(values) \div pattern_len, "RepeatedToggle")
         ELSE repeated_toggle_from(values, pattern_len + 1)

detect_repeated_toggle(values) ==
    IF Len(values) < 4 THEN NoResult ELSE repeated_toggle_from(values, 2)

\* keep_best without the test of the benefit
keep_best_unfiltered(best_result, result) ==
    IF result.found /\ (~best_result.found \/ RatioGreater(result, best_result))
    THEN result ELSE best_result

\* one of the two attempts of detect: result replaces best when it is
\* beneficial and strictly better
keep_best(best_result, result) ==
    IF result.found /\ RatioAboveOne(result)
       /\ (~best_result.found \/ RatioGreater(result, best_result))
    THEN result ELSE best_result

\* CombinedDetector::detect
detect(values, min_pattern_length) ==
    IF Len(values) < min_pattern_length THEN NoResult
    ELSE keep_best(keep_best(NoResult, detect_repeated_range(values)),
                   detect_repeated_toggle(values))

\* the cells of the columns handed to the detector
ValueTexts == {<<"1">>, <<"2">>, <<"3">>, <<"0", "2">>, <<"a">>}

\* no detector call
NoDet == [values |-> <<>>, min_pattern_length |-> 0, called |-> FALSE, result |-> NoResult]

\* longer columns: a two-digit arithmetic prefix repeated five times, where
\* the two candidates of detect have ratios close to each other, and the
\* plain progression 1..6
LongColumns ==
    {Repeat(<<<<"1", "0">>, <<"2", "0">>>>, 5),
     Repeat(<<<<"1", "0">>, <<"2", "0">>, <<"3", "0">>>>, 3),
     <<<<"1">>, <<"2">>, <<"3">>, <<"4">>, <<"5">>, <<"6">>>>}

Detections ==
    {[values |-> v, min_pattern_length |-> m, called |-> FALSE, result |-> NoResult] :
        v \in SeqsUpTo(ValueTexts, MaxValues) \cup LongColumns, m \in {3, 5}}

(***************************************************************************)
(* The state machine: parse_document, step by step, then expand.           *)
(***************************************************************************)
\* ParserConfig::default, and a parser made by with_config with a lower bound
DefaultConfig == [max_range_expansion |-> DefaultMaxRangeExpansion]

LowConfig == [max_range_expansion |-> DefaultMaxRangeExpansion - 1]

\* the process is still running
Running == 0 - 1

\* no command line: the library is called directly
NoCli == [command |-> "none", format |-> "csv", exit_code |-> Running, failure |-> "none"]

\* the `decompress` and `info` sub-commands of the command line, with --format
Commands ==
    {[command |-> "decompress", format |-> f, exit_code |-> Running, failure |-> "none"] :
        f \in {"csv", "json", "als"}}
    \cup {[command |-> "info", format |-> "csv", exit_code |-> Running, failure |-> "none"]}

\* the files the command line is run on: one for each way a command can end
CliInputs ==
    {<<>>,
     <<TSchemaColumn("a"), TNewline, TInteger(1)>>,
     <<TSchemaColumn("a"), TNewline, TMultiplyOp>>,
     <<TSchemaColumn("a"), TSchemaColumn("b"), TNewline, TInteger(1)>>,
     <<TSchemaColumn("a"), TSchemaColumn("b"), TNewline, TInteger(1), TColumnSeparator,
       TRawValue(Text("x")), TRawValue(Text("y"))>>,
     <<DefaultHeader, TNewline, TSchemaColumn("a"), TNewline, TDictRef(2)>>,
     <<TSchemaColumn("a"), TNewline, TInteger(1), TRangeOp, TInteger(7)>>,
     <<TSchemaColumn("a"), TNewline, TRawValue(Text("x")), TMultiplyOp, TInteger(7)>>,
     <<TVersionAls(2), TNewline, TSchemaColumn("a"), TNewline, TInteger(1)>>}

Init ==
    /\ \/ /\ table = NoTable
          /\ input \in Inputs
          /\ pc = "version"
          /\ config = DefaultConfig
          /\ cli = NoCli
          /\ det = NoDet
       \/ /\ table = NoTable
          /\ input \in ConfiguredInputs
          /\ pc = "version"
          /\ config = LowConfig
          /\ cli = NoCli
          /\ det = NoDet
       \/ /\ table \in {[present |-> TRUE, columns |-> t] : t \in Tables}
          /\ input = <<>>
          /\ pc = "compress"
          /\ config = DefaultConfig
          /\ cli = NoCli
          /\ det = NoDet
       \/ /\ table = NoTable
          /\ input \in CliInputs
          /\ pc = "version"
          /\ config = DefaultConfig
          /\ cli \in Commands
          /\ det = NoDet
    /\ pos = 0
    /\ doc = NewDocument
    /\ cur = [streams |-> <<>>, current_stream |-> <<>>]
    /\ err = NoErr
    /\ rows = <<>>

\* AlsCompressor::compress
Compress ==
    /\ pc = "compress"
    /\ doc' \in Compressions(table.columns)
    /\ pc' = "serialize"
    /\ UNCHANGED <<det, cli, config, table, input, pos, cur, err, rows>>

\* AlsSerializer::serialize, and Tokenizer::new on its text
SerializeDocument ==
    /\ pc = "serialize"
    /\ input' = Tokenize(Serialize(doc))
    /\ doc' = NewDocument
    /\ pc' = "version"
    /\ UNCHANGED <<det, cli, config, table, pos, cur, err, rows>>

\* a version the parser accepts, with the bound off by one
version_supported_strict(v) == v < MAX_SUPPORTED_VERSION

\* parse_document, line 53: a version the parser accepts
version_supported(v) == v <= MAX_SUPPORTED_VERSION

\* the version line that never records the version number
apply_version_indicator_only(d, t) ==
    [d EXCEPT !.format_indicator = IF t.als THEN "Als" ELSE "Ctx"]

\* parse_document, lines 59-64: the version line's effect on the document
apply_version(d, t) ==
    IF t.als THEN [d EXCEPT !.version = t.v, !.format_indicator = "Als"]
    ELSE [d EXCEPT !.format_indicator = "Ctx"]

\* the parser is reached: the library is called directly, or the command
\* has passed its own checks (decompress_command, info_command)
CliParses ==
    \/ cli.command = "none"
    \/ cli.command = "info" /\ input # <<>>
    \/ cli.command = "decompress" /\ input # <<>> /\ cli.format # "als"

\* parse_document, lines 47-67: the optional version line
ParseVersion ==
    /\ pc = "version"
    /\ CliParses
    /\ LET w == skip_whitespace_tokens(input, pos)
           t == peek_token(input, w.pos)
           w2 == skip_whitespace_tokens(input, w.pos + 1)
       IN IF ~w.ok
          THEN /\ pc' = "error" /\ err' = w.err /\ pos' = w.pos /\ doc' = doc
          ELSE IF t.k # "Version"
          THEN /\ pc' = "dictionaries" /\ err' = err /\ pos' = w.pos /\ doc' = doc
          ELSE IF t.als /\ ~version_supported(t.v)
          THEN /\ pc' = "error"
               /\ err' = VersionMismatch(MAX_SUPPORTED_VERSION, t.v)
               /\ pos' = w.pos + 1
               /\ doc' = doc
          ELSE /\ doc' = apply_version(doc, t)
               /\ pos' = w2.pos
               /\ IF w2.ok THEN pc' = "dictionaries" /\ err' = err
                  ELSE pc' = "error" /\ err' = w2.err
    /\ UNCHANGED <<det, cli, config, table, input, cur, rows>>

\* parse_document, lines 69-74: one turn of the dictionary loop
ParseDictionary ==
    /\ pc = "dictionaries"
    /\ peek_token(input, pos).k = "DictionaryHeader"
    /\ LET t == peek_token(input, pos)
           w == skip_whitespace_tokens(input, pos + 1)
       IN /\ doc' = [doc EXCEPT !.dictionaries = (t.name :> t.values) @@ @]
          /\ pos' = w.pos
          /\ IF w.ok THEN pc' = "dictionaries" /\ err' = err
             ELSE pc' = "error" /\ err' = w.err
    /\ UNCHANGED <<det, cli, config, table, input, cur, rows>>

\* the dictionary loop ends at the first token that is no dictionary header
DictionariesDone ==
    /\ pc = "dictionaries"
    /\ peek_token(input, pos).k # "DictionaryHeader"
    /\ pc' = "schema"
    /\ UNCHANGED <<det, cli, config, table, input, pos, doc, cur, err, rows>>

\* parse_document, lines 76-80: one turn of the schema loop
ParseSchemaColumn ==
    /\ pc = "schema"
    /\ AtInvalid(input, pos) \/ peek_token(input, pos).k = "SchemaColumn"
    /\ IF AtInvalid(input, pos)
       THEN /\ pc' = "error" /\ err' = AlsSyntaxError(pos) /\ pos' = pos /\ doc' = doc
       ELSE /\ doc' = [doc EXCEPT !.schema = Append(@, peek_token(input, pos).name)]
            /\ pos' = pos + 1
            /\ pc' = pc
            /\ err' = err
    /\ UNCHANGED <<det, cli, config, table, input, cur, rows>>

\* the end of the schema that starts parse_streams whatever the schema is
SchemaDoneAlwaysStreams ==
    /\ pc = "schema"
    /\ ~AtInvalid(input, pos)
    /\ peek_token(input, pos).k # "SchemaColumn"
    /\ LET w == skip_whitespace_tokens(input, pos)
       IN /\ pos' = w.pos
          /\ IF ~w.ok THEN pc' = "error" /\ err' = w.err
             ELSE /\ err' = err
                  /\ pc' = "streams"
    /\ cur' = [streams |-> <<>>, current_stream |-> <<>>]
    /\ UNCHANGED <<det, cli, config, table, input, doc, rows>>

\* parse_document, lines 81-89: the schema is read; with no column the
\* document is returned, otherwise parse_streams starts
SchemaDone ==
    /\ pc = "schema"
    /\ ~AtInvalid(input, pos)
    /\ peek_token(input, pos).k # "SchemaColumn"
    /\ LET w == skip_whitespace_tokens(input, pos)
       IN /\ pos' = w.pos
          /\ IF ~w.ok THEN pc' = "error" /\ err' = w.err
             ELSE /\ err' = err
                  /\ pc' = IF doc.schema = <<>> THEN "done" ELSE "streams"
    /\ cur' = [streams |-> <<>>, current_stream |-> <<>>]
    /\ UNCHANGED <<det, cli, config, table, input, doc, rows>>

\* end of input without the column count validation
StreamEofUnvalidated ==
    /\ pc = "streams"
    /\ ~AtInvalid(input, pos)
    /\ peek_token(input, pos).k = "Eof"
    /\ LET streams == IF cur.current_stream # <<>> \/ cur.streams = <<>>
                      THEN Append(cur.streams, cur.current_stream)
                      ELSE cur.streams
       IN /\ cur' = [cur EXCEPT !.streams = streams]
          /\ pc' = "done"
          /\ err' = err
          /\ doc' = [doc EXCEPT !.streams = streams]
    /\ UNCHANGED <<det, cli, config, table, input, pos, rows>>

\* end of input where only a non-empty open stream is kept
StreamEofNonEmptyOnly ==
    /\ pc = "streams"
    /\ ~AtInvalid(input, pos)
    /\ peek_token(input, pos).k = "Eof"
    /\ LET streams == IF cur.current_stream # <<>>
                      THEN Append(cur.streams, cur.current_stream)
                      ELSE cur.streams
           expected_columns == Len(doc.schema)
       IN /\ cur' = [cur EXCEPT !.streams = streams]
          /\ IF Len(streams) # expected_columns /\ expected_columns > 0
             THEN /\ pc' = "error"
                  /\ err' = ColumnMismatch(expected_columns, Len(streams))
                  /\ doc' = doc
             ELSE /\ pc' = "done"
                  /\ err' = err
                  /\ doc' = [doc EXCEPT !.streams = streams]
    /\ UNCHANGED <<det, cli, config, table, input, pos, rows>>

\* parse_streams, lines 114-120 and 138-146: end of input
StreamEof ==
    /\ pc = "streams"
    /\ ~AtInvalid(input, pos)
    /\ peek_token(input, pos).k = "Eof"
    /\ LET streams == IF cur.current_stream # <<>> \/ cur.streams = <<>>
                      THEN Append(cur.streams, cur.current_stream)
                      ELSE cur.streams
           expected_columns == Len(doc.schema)
       IN /\ cur' = [cur EXCEPT !.streams = streams]
          /\ IF Len(streams) # expected_columns /\ expected_columns > 0
             THEN /\ pc' = "error"
                  /\ err' = ColumnMismatch(expected_columns, Len(streams))
                  /\ doc' = doc
             ELSE /\ pc' = "done"
                  /\ err' = err
                  /\ doc' = [doc EXCEPT !.streams = streams]
    /\ UNCHANGED <<det, cli, config, table, input, pos, rows>>

\* parse_streams, lines 121-125: `|` closes the current stream
StreamSeparator ==
    /\ pc = "streams"
    /\ ~AtInvalid(input, pos)
    /\ peek_token(input, pos).k = "ColumnSeparator"
    /\ cur' = [streams |-> Append(cur.streams, cur.current_stream),
               current_stream |-> <<>>]
    /\ pos' = pos + 1
    /\ UNCHANGED <<det, cli, config, table, input, pc, doc, err, rows>>

\* a newline that is looked at and never consumed
StreamNewlinePeeked ==
    /\ pc = "streams"
    /\ ~AtInvalid(input, pos)
    /\ peek_token(input, pos).k = "Newline"
    /\ pos' = pos
    /\ UNCHANGED <<det, cli, config, table, input, pc, doc, cur, err, rows>>

\* parse_streams, lines 126-129: a newline is skipped
StreamNewline ==
    /\ pc = "streams"
    /\ ~AtInvalid(input, pos)
    /\ peek_token(input, pos).k = "Newline"
    /\ pos' = pos + 1
    /\ UNCHANGED <<det, cli, config, table, input, pc, doc, cur, err, rows>>

\* parse_streams, lines 111 and 130-134: any other token starts an element
StreamElement ==
    /\ pc = "streams"
    /\ AtInvalid(input, pos)
       \/ peek_token(input, pos).k \notin {"Eof", "ColumnSeparator", "Newline"}
    /\ LET r == IF AtInvalid(input, pos) THEN LexError(pos)
                ELSE parse_element(input, pos + 1, peek_token(input, pos))
       IN /\ pos' = r.pos
          /\ IF r.ok
             THEN /\ cur' = [cur EXCEPT !.current_stream = Append(@, r.val)]
                  /\ pc' = pc
                  /\ err' = err
             ELSE /\ cur' = cur
                  /\ pc' = "error"
                  /\ err' = r.err
    /\ UNCHANGED <<det, cli, config, table, input, doc, rows>>

\* the expanded columns, or the first error of a stream
RECURSIVE ExpandColumns(_, _)
ExpandColumns(streams, dict) ==
    IF streams = <<>> THEN Okay(<<>>, 0)
    ELSE LET h == stream_expand(Head(streams), dict) IN
         IF ~h.ok THEN h
         ELSE LET r == ExpandColumns(Tail(streams), dict) IN
              IF r.ok THEN Okay(<<h.val>> \o r.val, 0) ELSE r

\* the first column whose length differs from the first column's, 0 if none
FirstMismatch(columns) ==
    IF \E j \in 1..Len(columns) : Len(columns[j]) # Len(columns[1])
    THEN CHOOSE j \in 1..Len(columns) :
            /\ Len(columns[j]) # Len(columns[1])
            /\ \A i \in 1..(j - 1) : Len(columns[i]) = Len(columns[1])
    ELSE 0

\* the expanded columns returned as they are, one row per stream
TransposeColumnMajor(columns) == columns

Transpose(columns) ==
    [i \in 1..Len(columns[1]) |-> [j \in 1..Len(columns) |-> columns[j][i]]]

\* expand reporting the two lengths in each other's place
expand_swapped(d) ==
    IF d.streams = <<>> THEN Okay(<<>>, 0)
    ELSE LET cols == ExpandColumns(d.streams, default_dictionary(d)) IN
         IF ~cols.ok THEN cols
         ELSE IF FirstMismatch(cols.val) # 0
         THEN Fail(ColumnMismatch(Len(cols.val[FirstMismatch(cols.val)]), Len(cols.val[1])), 0)
         ELSE Okay(Transpose(cols.val), 0)

\* expand that falls back on another dictionary when `default` is absent
expand_any_dictionary(d) ==
    IF d.streams = <<>> THEN Okay(<<>>, 0)
    ELSE LET dict == IF "default" \in DOMAIN d.dictionaries THEN d.dictionaries["default"]
                     ELSE IF "other" \in DOMAIN d.dictionaries THEN d.dictionaries["other"]
                     ELSE <<>>
             cols == ExpandColumns(d.streams, dict) IN
         IF ~cols.ok THEN cols
         ELSE IF FirstMismatch(cols.val) # 0
         THEN Fail(ColumnMismatch(Len(cols.val[1]), Len(cols.val[FirstMismatch(cols.val)])), 0)
         ELSE Okay(Transpose(cols.val), 0)

\* AlsParser::expand
expand(d) ==
    IF d.streams = <<>> THEN Okay(<<>>, 0)
    ELSE LET cols == ExpandColumns(d.streams, default_dictionary(d)) IN
         IF ~cols.ok THEN cols
         ELSE IF FirstMismatch(cols.val) # 0
         THEN Fail(ColumnMismatch(Len(cols.val[1]), Len(cols.val[FirstMismatch(cols.val)])), 0)
         ELSE Okay(Transpose(cols.val), 0)

Expand ==
    /\ pc = "done"
    /\ cli.command # "info"
    /\ LET r == expand(doc)
       IN IF r.ok
          THEN /\ pc' = "expanded" /\ rows' = r.val /\ err' = err
          ELSE /\ pc' = "expand_error" /\ rows' = rows /\ err' = r.err
    /\ UNCHANGED <<det, cli, config, table, input, pos, doc, cur>>

\* map_als_error: the one-line message of an error kind under a context
map_als_error(error, context) == [context |-> context, message |-> error.kind]

\* the process exit code of main's Result<()>: 0 for Ok, 1 for any Err
exit_status(ok) == IF ok THEN 0 ELSE 1

\* decompress_command and info_command on an empty input: a warning, Ok(())
CliEmptyInput ==
    /\ cli.command # "none"
    /\ cli.exit_code = Running
    /\ pc = "version"
    /\ input = <<>>
    /\ cli' = [cli EXCEPT !.exit_code = exit_status(TRUE)]
    /\ UNCHANGED <<det, config, table, input, pos, pc, doc, cur, err, rows>>

\* decompress_command with --format als: anyhow::bail!
CliBadFormat ==
    /\ cli.command = "decompress"
    /\ cli.exit_code = Running
    /\ pc = "version"
    /\ input # <<>>
    /\ cli.format = "als"
    /\ cli' = [cli EXCEPT !.exit_code = exit_status(FALSE), !.failure = "usage"]
    /\ UNCHANGED <<det, config, table, input, pos, pc, doc, cur, err, rows>>

\* the core returned an error: map_err(map_als_error), `?`, main returns Err
CliCoreError ==
    /\ cli.command # "none"
    /\ cli.exit_code = Running
    /\ pc \in {"error", "expand_error"}
    /\ cli' = [cli EXCEPT !.exit_code = exit_status(FALSE),
                          !.failure = map_als_error(err, cli.command).message]
    /\ UNCHANGED <<det, config, table, input, pos, pc, doc, cur, err, rows>>

\* the core returned Ok: the output is written, which can fail, and main returns
CliFinish ==
    /\ cli.command # "none"
    /\ cli.exit_code = Running
    /\ \/ cli.command = "info" /\ pc = "done"
       \/ cli.command = "decompress" /\ pc = "expanded"
    /\ \E written \in BOOLEAN :
          /\ cli.command = "info" => written
          /\ cli' = [cli EXCEPT !.exit_code = exit_status(written),
                                !.failure = IF written THEN "none" ELSE "IoError"]
    /\ UNCHANGED <<det, config, table, input, pos, pc, doc, cur, err, rows>>

Next ==
    \/ Compress
    \/ SerializeDocument
    \/ ParseVersion
    \/ ParseDictionary
    \/ DictionariesDone
    \/ ParseSchemaColumn
    \/ SchemaDone
    \/ StreamEof
    \/ StreamSeparator
    \/ StreamNewline
    \/ StreamElement
    \/ Expand
    \/ CliEmptyInput
    \/ CliBadFormat
    \/ CliCoreError
    \/ CliFinish

Spec == Init /\ [][Next]_vars

\* before the call: no input has been handed over yet
CallInit ==
    /\ pc = "call"
    /\ table = NoTable
    /\ input = <<>>
    /\ config = DefaultConfig
    /\ cli = NoCli
    /\ det = NoDet
    /\ pos = 0
    /\ doc = NewDocument
    /\ cur = [streams |-> <<>>, current_stream |-> <<>>]
    /\ err = NoErr
    /\ rows = <<>>

\* the elements with fewer than three `(` in a row
ShallowElements ==
    {e \in Elements : \A i \in 1..(Len(e) - 2) :
        ~(e[i].k = "OpenParen" /\ e[i + 1].k = "OpenParen" /\ e[i + 2].k = "OpenParen")}

\* the inputs of the calls: every header with the few sections, and every
\* stream of at most two shallow elements under a one-column schema
CallInputs ==
    {v \o d \o s \o x : v \in VersionLines, d \in DictionaryLines,
                        s \in SchemaLines, x \in FewSections}
    \cup {<<DefaultHeader, TNewline, TSchemaColumn("a"), TNewline>> \o Flatten(es) :
            es \in SeqsUpTo(ShallowElements, 2)}

ConfiguredCallInputs ==
    {<<DefaultHeader, TNewline, TSchemaColumn("a"), TNewline>> \o e : e \in ShallowElements}

\* the caller hands over one of the inputs
Call ==
    /\ pc = "call"
    /\ \/ /\ table' = NoTable
          /\ input' \in CallInputs
          /\ pc' = "version"
          /\ config' = DefaultConfig
          /\ cli' = NoCli
       \/ /\ table' = NoTable
          /\ input' \in ConfiguredCallInputs
          /\ pc' = "version"
          /\ config' = LowConfig
          /\ cli' = NoCli
       \/ /\ table' \in {[present |-> TRUE, columns |-> t] : t \in TablesOf(1, 1) \cup TablesOf(2, 1)}
          /\ input' = <<>>
          /\ pc' = "compress"
          /\ config' = DefaultConfig
          /\ cli' = NoCli
       \/ /\ table' = NoTable
          /\ input' \in CliInputs
          /\ pc' = "version"
          /\ config' = DefaultConfig
          /\ cli' \in Commands
    /\ UNCHANGED <<det, pos, doc, cur, err, rows>>

FairNext == Call \/ Next

\* the program is sequential: its next step is always taken
FairSpec == CallInit /\ [][FairNext]_vars /\ WF_vars(FairNext)

\* a call of CombinedDetector::detect on a column
DetectInit ==
    /\ det \in Detections
    /\ cli = NoCli
    /\ config = DefaultConfig
    /\ table = NoTable
    /\ input = <<>>
    /\ pos = 0
    /\ pc = "detect"
    /\ doc = NewDocument
    /\ cur = [streams |-> <<>>, current_stream |-> <<>>]
    /\ err = NoErr
    /\ rows = <<>>

Detect ==
    /\ pc = "detect"
    /\ ~det.called
    /\ det' = [det EXCEPT !.called = TRUE,
                          !.result = detect(det.values, det.min_pattern_length)]
    /\ UNCHANGED <<cli, config, table, input, pos, pc, doc, cur, err, rows>>

DetectSpec == DetectInit /\ [][Detect]_vars

(***************************************************************************)
(* Properties.                                                             *)
(***************************************************************************)
\* parse has returned Ok(doc)
ParseOk == pc \in {"done", "expanded", "expand_error"}

\* parse has returned Err(err)
ParseFailed == pc = "error"

\* the rows of a table, as expand gives them
TableRows(columns) ==
    [i \in 1..Len(columns[1].values) |-> [j \in 1..Len(columns) |-> columns[j].values[i]]]

\* the `|` tokens of the input; with a non-empty schema they all stand in
\* the stream section
SeparatorCount == Cardinality({i \in 1..Len(input) : input[i].k = "ColumnSeparator"})

\* the first token after leading newlines
FirstToken == peek_token(input, skip_whitespace_tokens(input, 0).pos)

\* C1: round trip: a table of at least one row, compressed, serialized,
\* parsed and expanded, comes back as the same rows, cell by cell as text.
C1_RoundTrip ==
    (table.present /\ Len(table.columns[1].values) > 0
        /\ pc \in {"error", "expanded", "expand_error"})
    => (pc = "expanded" /\ rows = TableRows(table.columns))

\* C2: with a non-empty schema of k columns parse succeeds only when the
\* stream section holds exactly k pipe-separated streams (separators + 1 = k),
\* and a column mismatch reports ColumnMismatch{k, separators + 1}.
C2_ExactStreamCount ==
    /\ (pc = "done" /\ doc.schema # <<>>) => SeparatorCount + 1 = Len(doc.schema)
    /\ (pc = "error" /\ err.kind = "ColumnMismatch")
        => err = ColumnMismatch(Len(doc.schema), SeparatorCount + 1)

\* C3: a trailing empty stream counts: with k >= 2 columns, k-1 non-empty
\* streams and a final `|` at the end of the input parse into k streams, the
\* last one empty.
C3_TrailingEmptyStream ==
    (/\ pc \in {"done", "error"}
     /\ err.kind \in {"none", "ColumnMismatch"}
     /\ Len(doc.schema) >= 2
     /\ input # <<>>
     /\ input[Len(input)].k = "ColumnSeparator"
     /\ SeparatorCount = Len(doc.schema) - 1
     /\ \A j \in 1..(Len(doc.schema) - 1) : cur.streams[j] # <<>>)
    => (/\ pc = "done"
        /\ Len(doc.streams) = Len(doc.schema)
        /\ doc.streams[Len(doc.streams)] = <<>>)

\* the lengths the streams of the document expand to, when they all expand
ExpandedLengths ==
    [j \in 1..Len(doc.streams) |->
        Len(stream_expand(doc.streams[j], default_dictionary(doc)).val)]

AllStreamsExpand ==
    \A j \in 1..Len(doc.streams) : stream_expand(doc.streams[j], default_dictionary(doc)).ok

\* C4: expand returns rows only when every stream expands to as many values
\* as the first; otherwise it fails with ColumnMismatch{first length, length
\* of the first stream in column order that differs}.
C4_ExpandColumnMismatch ==
    (pc \in {"expanded", "expand_error"} /\ AllStreamsExpand) =>
        LET lens == ExpandedLengths
            differing == {j \in 1..Len(lens) : lens[j] # lens[1]}
        IN IF differing = {}
           THEN pc = "expanded" /\ Len(rows) = (IF lens = <<>> THEN 0 ELSE lens[1])
           ELSE /\ pc = "expand_error"
                /\ rows = <<>>
                /\ \E j \in differing :
                      /\ \A i \in differing : j <= i
                      /\ err = ColumnMismatch(lens[1], lens[j])

\* C4 witness: `#a #a #c` with `1|x y|1>3`: the second stream is the first to differ
C4_Witness ==
    /\ pc = "expand_error"
    /\ Len(doc.streams) = 3
    /\ err = ColumnMismatch(1, 2)

\* every Range of an operator
RECURSIVE RangesOf(_)
RangesOf(op) ==
    CASE op.t = "Range" -> {op}
      [] op.t = "Multiply" -> RangesOf(op.value)
      [] OTHER -> {}

DocumentRanges(streams) ==
    UNION {UNION {RangesOf(streams[j][i]) : i \in 1..Len(streams[j])} :
              j \in 1..Len(streams)}

RangeWithinLimit(r) ==
    /\ r.step # 0
    /\ r.end - r.start <= I64Max
    /\ r.end - r.start >= I64Min
    /\ RangeCount(r.start, r.end, r.step) <= config.max_range_expansion

\* every DictRef index of an operator
RECURSIVE DictRefsOf(_)
DictRefsOf(op) ==
    CASE op.t = "DictRef" -> {op.i}
      [] op.t = "Multiply" -> DictRefsOf(op.value)
      [] OTHER -> {}

DocumentDictRefs(streams) ==
    UNION {UNION {DictRefsOf(streams[j][i]) : i \in 1..Len(streams[j])} :
              j \in 1..Len(streams)}

\* C5 as stated: a parse error carries a position in [0, len(input)]; a
\* parsed document has every DictRef in the default dictionary, streams of
\* one row count, as many streams as columns, no Range above the bound, and
\* its expansion never fails.
C5_ParsedDocumentExpands ==
    /\ (ParseFailed /\ err.kind = "AlsSyntaxError") => err.position \in 0..Len(input)
    /\ ParseOk =>
        /\ \A i \in DocumentDictRefs(doc.streams) : i < Len(default_dictionary(doc))
        /\ \A j \in 1..Len(doc.streams) :
              StreamCount(doc.streams[j]) = StreamCount(doc.streams[1])
        /\ Len(doc.streams) = Len(doc.schema)
        /\ \A r \in DocumentRanges(doc.streams) : RangeWithinLimit(r)
    /\ pc # "expand_error"

\* C5 amended: a syntax error carries a position in [0, len(input)]; a
\* parsed document has as many streams as schema columns and no Range above
\* max_range_expansion; its expansion can still fail, and then with
\* InvalidDictRef, ColumnMismatch or RangeOverflow.
C5_ParserSafety ==
    /\ (ParseFailed /\ err.kind = "AlsSyntaxError") => err.position \in 0..Len(input)
    /\ ParseOk =>
        /\ Len(doc.streams) = Len(doc.schema)
        /\ \A r \in DocumentRanges(doc.streams) : RangeWithinLimit(r)
    /\ pc = "expand_error" => err.kind \in {"InvalidDictRef", "ColumnMismatch", "RangeOverflow"}

\* C5 witness: `#a #b` with `1>3|x y` parses and then fails to expand
C5_Witness ==
    /\ pc = "expand_error"
    /\ ~table.present
    /\ err = ColumnMismatch(3, 2)
    /\ Len(doc.streams) = Len(doc.schema)

\* the token after i consumed tokens
TokAt(i) == peek_token(input, i)

\* a range expression s>e or s>e:p starts at token i+1 of the input
IsRangeAt(i) ==
    /\ TokAt(i).k = "Integer"
    /\ TokAt(i + 1).k = "RangeOp"
    /\ TokAt(i + 2).k = "Integer"
    /\ TokAt(i + 3).k = "StepSeparator" => TokAt(i + 4).k = "Integer"

\* the Range it denotes
RangeAt(i) ==
    Range(TokAt(i).n, TokAt(i + 2).n,
          IF TokAt(i + 3).k = "StepSeparator" THEN TokAt(i + 4).n
          ELSE IF TokAt(i + 2).n >= TokAt(i).n THEN 1 ELSE 0 - 1)

\* C6: no parsed document holds a Range of more than max_range_expansion
\* values (or one whose count overflows): an input that writes such a range in
\* its stream section, alone, before `*n` or in a group, is not parsed.
C6_NoOversizedRange ==
    ParseOk =>
        /\ \A r \in DocumentRanges(doc.streams) : RangeWithinLimit(r)
        /\ doc.schema # <<>> =>
              \A i \in 0..(Len(input) - 3) : IsRangeAt(i) => RangeWithinLimit(RangeAt(i))

\* C6 witness: (1>7)*2 is rejected with RangeOverflow
C6_Witness ==
    /\ ParseFailed
    /\ err = RangeOverflow(1, 7, 1)
    /\ \E i \in 1..Len(input) : input[i].k = "OpenParen"
    /\ config = DefaultConfig

\* C7: expand never gives a stream more than max_range_expansion values,
\* Multiply and Toggle counts included.
C7_CumulativeBound ==
    pc = "expanded" =>
        \A j \in 1..Len(doc.streams) :
            StreamCount(doc.streams[j]) <= config.max_range_expansion

\* C8: a version line !vN with N > 1 makes parse fail with
\* VersionMismatch{1, N} whatever follows, and no other input does.
C8_VersionMismatch ==
    pc \notin {"compress", "serialize", "version"} =>
        /\ (FirstToken.k = "Version" /\ FirstToken.als /\ FirstToken.v > 1)
              => (ParseFailed /\ err = VersionMismatch(1, FirstToken.v))
        /\ err.kind = "VersionMismatch"
              => (FirstToken.k = "Version" /\ FirstToken.als /\ FirstToken.v > 1)

\* C8 witness: !v255 before a place the tokenizer cannot read
C8_Witness ==
    /\ ParseFailed
    /\ err = VersionMismatch(1, 255)
    /\ \E i \in 1..Len(input) : input[i].k = "Invalid"

\* C9: the version line alone gives the document its version and format
\* indicator: none -> version 1, ALS; !vN -> version N, ALS; !ctx -> CTX.
C9_VersionLine ==
    ParseOk =>
        /\ FirstToken.k # "Version" => (doc.version = 1 /\ doc.format_indicator = "Als")
        /\ (FirstToken.k = "Version" /\ FirstToken.als)
              => (doc.version = FirstToken.v /\ doc.format_indicator = "Als")
        /\ (FirstToken.k = "Version" /\ ~FirstToken.als) => doc.format_indicator = "Ctx"

\* C9 witness: a document read after !v0, with streams
C9_Witness ==
    /\ ParseOk
    /\ FirstToken = TVersionAls(0)
    /\ doc.version = 0
    /\ doc.streams # <<>>

\* the operator under the Multiply wrappers
RECURSIVE Innermost(_)
Innermost(op) == IF op.t = "Multiply" THEN Innermost(op.value) ELSE op

LastOf(seq) == seq[Len(seq)]

\* C10: s>e without `:` parses to Range{s, e, 1} when e >= s and to
\* Range{s, e, -1} when e < s; with `:p` the step is p.  Stated of the step
\* of parse_streams that reads the range expression, bare or in a group.
C10_RangeStep ==
    [][\A o \in {0, 1} :
        (/\ pc = "streams"
         /\ o = 1 => TokAt(pos).k = "OpenParen"
         /\ IsRangeAt(pos + o))
        => /\ pc' = "streams" =>
                Innermost(LastOf(cur'.current_stream)) = RangeAt(pos + o)
           /\ (/\ o = 0
               /\ TokAt(pos + 3).k \notin {"StepSeparator", "MultiplyOp", "Invalid"}
               /\ RangeWithinLimit(RangeAt(pos)))
              => /\ pc' = "streams"
                 /\ cur'.current_stream = Append(cur.current_stream, RangeAt(pos))
      ]_vars

\* C10 witness: 3>1 was read as Range{3, 1, -1}
C10_Witness ==
    /\ pc = "streams"
    /\ cur.current_stream # <<>>
    /\ LastOf(cur.current_stream) = Range(3, 1, 0 - 1)
    /\ input[pos].k = "Integer"
    /\ input[pos - 1].k = "RangeOp"

\* a token expect_value accepts, and the text it gives
IsValueTok(t) == t.k \in {"Integer", "Float", "RawValue"}

ValueText(t) ==
    CASE t.k = "Integer" -> I64ToString(t.n)
      [] t.k = "Float" -> F64ToString(t.f)
      [] t.k = "RawValue" -> t.s

\* the values v1, v2, ... of the longest chain v1~v2~... that starts at token i+1
RECURSIVE ToggleChain(_)
ToggleChain(i) ==
    IF TokAt(i + 1).k = "ToggleOp" /\ IsValueTok(TokAt(i + 2))
    THEN <<ValueText(TokAt(i))>> \o ToggleChain(i + 2)
    ELSE <<ValueText(TokAt(i))>>

\* a toggle expression v1~...~vk, k >= 2, with no trailing `*n` starts at token i+1
IsBareToggleAt(i) ==
    /\ IsValueTok(TokAt(i))
    /\ Len(ToggleChain(i)) >= 2
    /\ TokAt(i + 2 * Len(ToggleChain(i)) - 1).k \notin {"ToggleOp", "MultiplyOp", "Invalid"}

\* C11: v1~v2~...~vk with no trailing `*n` parses to Toggle{values: [v1..vk],
\* count: k}, one full cycle, for every k >= 2.  Stated of the step of
\* parse_streams that reads the toggle expression, bare or in a group.
C11_ToggleOneCycle ==
    [][/\ (pc = "streams" /\ IsBareToggleAt(pos))
          => /\ pc' = "streams"
             /\ pos' = pos + 2 * Len(ToggleChain(pos)) - 1
             /\ cur'.current_stream =
                   Append(cur.current_stream,
                          Toggle(ToggleChain(pos), Len(ToggleChain(pos))))
       /\ (pc = "streams" /\ TokAt(pos).k = "OpenParen" /\ IsBareToggleAt(pos + 1)
             /\ pc' = "streams")
          => Innermost(LastOf(cur'.current_stream)) =
                Toggle(ToggleChain(pos + 1), Len(ToggleChain(pos + 1)))
      ]_vars

\* C11 witness: x~1~y was read as Toggle{[x, 1, y], 3}
C11_Witness ==
    /\ pc = "streams"
    /\ cur.current_stream # <<>>
    /\ LastOf(cur.current_stream) = Toggle(<<Text("x"), Text("1"), Text("y")>>, 3)
    /\ pos >= 5
    /\ input[pos - 1].k = "ToggleOp"

\* what the token sequence e parses to on its own, as one element
ParseAlone(e) == parse_element(e, 1, e[1])

\* e is an element: it parses on its own and is read to its end
IsElement(e) == e # <<>> /\ ParseAlone(e).ok /\ ParseAlone(e).pos = Len(e)

\* the m tokens after the `(` that stands at token pos+1
GroupBody(m) == SubSeq(input, pos + 2, pos + 1 + m)

\* C12: for every element E, `(E)*n` parses to Multiply{parse(E), n} with
\* parse(E) the whole operator E parses to on its own, and `(E)` with no `*n`
\* parses to parse(E) unchanged; a group of a range times n expands to the
\* values of the range n times over.
C12_GroupMultiply ==
    [][/\ \A m \in 1..Len(input) :
            (/\ pc = "streams"
             /\ TokAt(pos).k = "OpenParen"
             /\ pos + 1 + m <= Len(input)
             /\ IsElement(GroupBody(m))
             /\ TokAt(pos + 1 + m).k = "CloseParen")
            => /\ (TokAt(pos + 2 + m).k = "MultiplyOp" /\ TokAt(pos + 3 + m).k = "Integer"
                      /\ TokAt(pos + 3 + m).n >= 0)
                  => /\ pc' = "streams"
                     /\ pos' = pos + 4 + m
                     /\ cur'.current_stream =
                           Append(cur.current_stream,
                                  Multiply(ParseAlone(GroupBody(m)).val, TokAt(pos + 3 + m).n))
               /\ TokAt(pos + 2 + m).k \notin {"MultiplyOp", "Invalid"}
                  => /\ pc' = "streams"
                     /\ pos' = pos + 2 + m
                     /\ cur'.current_stream =
                           Append(cur.current_stream, ParseAlone(GroupBody(m)).val)
       /\ (/\ pc = "done" /\ pc' = "expanded"
           /\ Len(doc.streams) = 1 /\ Len(doc.streams[1]) = 1
           /\ doc.streams[1][1].t = "Multiply" /\ doc.streams[1][1].value.t = "Range")
          => LET op == doc.streams[1][1]
                 once == RangeValues(op.value.start, op.value.end, op.value.step)
                 all == Repeat(once, op.count)
             IN rows' = [i \in 1..Len(all) |-> <<all[i]>>]
      ]_vars

\* C12 witness: (1>2)*2 was read as Multiply{Range{1, 2, 1}, 2} and expanded to 1, 2, 1, 2
C12_Witness ==
    /\ pc = "expanded"
    /\ \E i \in 1..Len(input) : input[i].k = "OpenParen"
    /\ doc.streams = <<<<Multiply(Range(1, 2, 1), 2)>>>>
    /\ rows = <<<<Text("1")>>, <<Text("2")>>, <<Text("1")>>, <<Text("2")>>>>

\* the m tokens that start at token pos+1
Operand(m) == SubSeq(input, pos + 1, pos + m)

\* e is an operand of the multiply grammar: a raw literal, a dictionary
\* reference, a range expression or a group
IsMultiplyOperand(e) ==
    /\ IsElement(e)
    /\ \/ Len(e) = 1 /\ (IsValueTok(e[1]) \/ e[1].k = "DictRef")
       \/ ParseAlone(e).val.t = "Range" /\ e[1].k = "Integer"
       \/ e[1].k = "OpenParen" /\ e[Len(e)].k = "CloseParen"

\* C13: for each operand X that is a raw literal, a dictionary reference, a
\* range expression or a group, `X*n` parses to Multiply{parse(X), n}.
C13_MultiplyOperands ==
    [][\A m \in 1..Len(input) :
          (/\ pc = "streams"
           /\ pos + m + 2 <= Len(input)
           /\ IsMultiplyOperand(Operand(m))
           /\ TokAt(pos + m).k = "MultiplyOp"
           /\ TokAt(pos + m + 1).k = "Integer"
           /\ TokAt(pos + m + 1).n >= 0)
          => /\ pc' = "streams"
             /\ pos' = pos + m + 2
             /\ cur'.current_stream =
                   Append(cur.current_stream,
                          Multiply(ParseAlone(Operand(m)).val, TokAt(pos + m + 1).n))
      ]_vars

\* the text `(_i _j ...)*n`
GroupOfRefs(refs, n) ==
    <<TOpenParen>> \o [i \in 1..Len(refs) |-> TDictRef(refs[i])]
    \o <<TCloseParen, TMultiplyOp, TInteger(n)>>

\* C14: a parenthesised sequence of several dictionary references followed
\* by `*n`, in a one-column document with a default dictionary that holds
\* them, parses without error and expands to the sequence repeated n times.
C14_GroupedSequence ==
    \A refs \in [1..2 -> 0..1] : \A n \in 1..2 :
        (/\ input = <<DefaultHeader, TNewline, TSchemaColumn("a"), TNewline>>
                        \o GroupOfRefs(refs, n)
         /\ pc \in {"done", "error", "expanded", "expand_error"})
        => /\ pc \in {"done", "expanded"}
           /\ pc = "expanded" =>
                rows = LET once == [i \in 1..2 |-> DefaultHeader.values[refs[i] + 1]]
                           all == Repeat(once, n)
                       IN [i \in 1..Len(all) |-> <<all[i]>>]

\* the DictRef indices of an operator, of a stream and of the streams, in
\* the order of expansion
RECURSIVE RefSeq(_)
RefSeq(op) ==
    CASE op.t = "DictRef" -> <<op.i>>
      [] op.t = "Multiply" -> RefSeq(op.value)
      [] OTHER -> <<>>

RECURSIVE StreamRefSeq(_)
StreamRefSeq(stream) ==
    IF stream = <<>> THEN <<>> ELSE RefSeq(Head(stream)) \o StreamRefSeq(Tail(stream))

RECURSIVE DocRefSeq(_)
DocRefSeq(streams) ==
    IF streams = <<>> THEN <<>> ELSE StreamRefSeq(Head(streams)) \o DocRefSeq(Tail(streams))

\* the entries of the document's `default` dictionary, none if it has no such dictionary
DefaultEntries ==
    IF "default" \in DOMAIN doc.dictionaries THEN doc.dictionaries["default"] ELSE <<>>

\* C15: expand resolves every DictRef(i), at any nesting depth, against the
\* `default` dictionary only: dict[i] when i is in bounds; InvalidDictRef{i,
\* size} and no rows when i >= size, the size being 0 without a `default`
\* dictionary.
C15_DictRefResolution ==
    pc \in {"expanded", "expand_error"} =>
        LET refs == DocRefSeq(doc.streams)
            size == Len(DefaultEntries)
            bad == {k \in 1..Len(refs) : refs[k] >= size}
        IN /\ pc = "expanded" =>
                /\ bad = {}
                /\ \A j \in 1..Len(doc.streams) :
                      (Len(doc.streams[j]) = 1 /\ Innermost(doc.streams[j][1]).t = "DictRef")
                      => \A i \in 1..Len(rows) :
                            rows[i][j] = DefaultEntries[Innermost(doc.streams[j][1]).i + 1]
                /\ \A j \in 1..Len(doc.streams) :
                      (\A i \in 1..Len(doc.streams[j]) : doc.streams[j][i].t = "DictRef")
                      => \A i \in 1..Len(rows) :
                            rows[i][j] = DefaultEntries[doc.streams[j][i].i + 1]
           /\ bad # {} =>
                /\ pc = "expand_error"
                /\ rows = <<>>
                /\ err.kind \in {"InvalidDictRef", "RangeOverflow"}
                /\ (\A j \in 1..Len(doc.streams) :
                        StreamCount(doc.streams[j]) <= DefaultMaxRangeExpansion)
                   => \E k \in bad : /\ \A l \in bad : k <= l
                                     /\ err = InvalidDictRef(refs[k], size)
           /\ err.kind = "InvalidDictRef" => bad # {}

\* C15 witness: a document with a dictionary, but none named `default`, fails on _0
C15_Witness ==
    /\ pc = "expand_error"
    /\ err = InvalidDictRef(0, 0)
    /\ DOMAIN doc.dictionaries = {"other"}
    /\ rows = <<>>

\* the input holds nothing but newlines after its last schema column
StreamSectionEmpty ==
    \E i \in 1..Len(input) :
        /\ input[i].k = "SchemaColumn"
        /\ \A l \in (i + 1)..Len(input) : input[l].k = "Newline"

\* C16: every document returned by parse has len(streams) = len(schema):
\* no stream with an empty schema, and, with one column and an empty stream
\* section, a parse that succeeds with one empty stream.
C16_StreamsMatchSchema ==
    /\ ParseOk =>
        /\ Len(doc.streams) = Len(doc.schema)
        /\ doc.schema = <<>> => doc.streams = <<>>
    /\ (pc \in {"done", "error", "expanded", "expand_error"}
        /\ Len(doc.schema) = 1 /\ StreamSectionEmpty)
       => (ParseOk /\ doc.streams = <<<<>>>>)

\* C16 witness: `#a` with an empty stream section gave one empty stream
C16_Witness ==
    /\ pc = "done"
    /\ StreamSectionEmpty
    /\ doc.schema = <<"a">>
    /\ doc.streams = <<<<>>>>

\* C17: every document returned by parse has a schema of pairwise distinct
\* column names.
C17_UniqueSchemaNames ==
    ParseOk =>
        \A i \in 1..Len(doc.schema) : \A j \in 1..Len(doc.schema) :
            i # j => doc.schema[i] # doc.schema[j]

\* the number of Multiply operators an operator is nested under, itself included
RECURSIVE MultiplyDepth(_)
MultiplyDepth(op) == IF op.t = "Multiply" THEN 1 + MultiplyDepth(op.value) ELSE 0

\* C18: no document returned by parse holds an operator whose Multiply
\* nesting depth exceeds max_nesting_depth; deeper input is rejected.
C18_NestingBounded ==
    ParseOk =>
        \A j \in 1..Len(doc.streams) : \A i \in 1..Len(doc.streams[j]) :
            MultiplyDepth(doc.streams[j][i]) <= DefaultMaxNestingDepth

\* C19: a command that fails with AlsSyntaxError, ColumnMismatch or
\* InvalidDictRef exits with code 1, one that fails with RangeOverflow or an
\* unexpected error exits with code 2, and a successful command exits with 0.
C19_ExitCodes ==
    cli.exit_code # Running =>
        /\ cli.failure \in {"AlsSyntaxError", "ColumnMismatch", "InvalidDictRef"}
              => cli.exit_code = 1
        /\ cli.failure \in {"RangeOverflow", "IoError"} => cli.exit_code = 2
        /\ cli.failure = "none" => cli.exit_code = 0

\* the values an operator expands to, no dictionary being at hand
ExpansionOf(op) == expand_operator(op, <<>>).val

C21_RatioAboveOne ==
    (det.called /\ det.result.found) =>
        LET r == det.result
            gain == r.original_len - r.cost
        IN /\ r.original_len = calculate_original_length(det.values)
           /\ gain >= 0
           /\ IF r.repeats = 1 THEN gain > 0
              ELSE gain >= 9 \/ Pow10(gain) > r.repeats

\* C21 witness: a repeated range whose ratio is exactly 1 was found and not returned
C21_Witness ==
    /\ det.called
    /\ ~det.result.found
    /\ Len(det.values) >= det.min_pattern_length
    /\ detect_repeated_range(det.values).found
    /\ detect_repeated_range(det.values).cost = calculate_original_length(det.values)

\* floor and ceiling of 1000 * log10(r), for 1 <= r <= 9
Log10MilliFloor(r) == <<0, 301, 477, 602, 698, 778, 845, 903, 954>>[r]

Log10MilliCeil(r) == <<0, 302, 478, 603, 699, 779, 846, 904, 955>>[r]

\* the two candidates of detect on the column, each beneficial
RangeCandidate == detect_repeated_range(det.values)

ToggleCandidate == detect_repeated_toggle(det.values)

BothCandidates ==
    /\ det.called
    /\ Len(det.values) >= det.min_pattern_length
    /\ RangeCandidate.found /\ RatioAboveOne(RangeCandidate)
    /\ ToggleCandidate.found /\ RatioAboveOne(ToggleCandidate)
    /\ ToggleCandidate.repeats <= 9

\* the ratios of the two candidates are within 5% of each other: the larger
\* of the costs cost and 11 + log10(repeats) is at most 1.05 times the smaller
WithinFivePercent ==
    LET c == 1000 * RangeCandidate.cost
        lo == 11000 + Log10MilliFloor(ToggleCandidate.repeats)
        hi == 11000 + Log10MilliCeil(ToggleCandidate.repeats)
    IN \/ c >= hi /\ 100 * c <= 105 * lo
       \/ c <= lo /\ 100 * hi <= 105 * c

RECURSIVE parse_streams(_, _, _, _)
parse_streams(toks, p, streams, current_stream) ==
    IF AtInvalid(toks, p) THEN [ok |-> FALSE, streams |-> <<>>]
    ELSE LET token == peek_token(toks, p) IN
         CASE token.k = "Eof" ->
                [ok |-> TRUE,
                 streams |-> IF current_stream # <<>> \/ streams = <<>>
                             THEN Append(streams, current_stream) ELSE streams]
           [] token.k = "ColumnSeparator" ->
                parse_streams(toks, p + 1, Append(streams, current_stream), <<>>)
           [] token.k = "Newline" -> parse_streams(toks, p + 1, streams, current_stream)
           [] OTHER ->
                LET r == parse_element(toks, p + 1, token) IN
                IF r.ok THEN parse_streams(toks, r.pos, streams, Append(current_stream, r.val))
                ELSE [ok |-> FALSE, streams |-> <<>>]

\* the tokens after the last schema column: the stream section
StreamSection ==
    LET last == CHOOSE i \in 1..Len(input) :
                    /\ input[i].k = "SchemaColumn"
                    /\ \A l \in (i + 1)..Len(input) : input[l].k # "SchemaColumn"
    IN SubSeq(input, last + 1, Len(input))

RECURSIVE WithoutNewlines(_)
WithoutNewlines(toks) ==
    IF toks = <<>> THEN <<>>
    ELSE IF Head(toks).k = "Newline" THEN WithoutNewlines(Tail(toks))
    ELSE <<Head(toks)>> \o WithoutNewlines(Tail(toks))

\* C23: line breaks inside the stream section are ignored: an input parses
\* to the document that the same input parses to with the newlines of its
\* stream section taken out, wherever they stand.
C23_NewlinesIgnored ==
    (pc \in {"done", "error", "expanded", "expand_error"} /\ doc.schema # <<>>) =>
        LET plain == parse_streams(WithoutNewlines(StreamSection), 0, <<>>, <<>>)
        IN (plain.ok /\ Len(plain.streams) = Len(doc.schema))
           => (ParseOk /\ doc.streams = plain.streams)

\* the expansion of stream j of the document on its own
ColumnOf(j) == stream_expand(doc.streams[j], default_dictionary(doc))

\* C24: when expand succeeds on a document with c streams each expanding to
\* r values, it returns exactly r rows of exactly c cells, rows[i][j] being
\* the i-th expanded value of stream j; a document with no streams expands
\* to zero rows.
C24_RowsAreTransposedColumns ==
    pc = "expanded" =>
        LET c == Len(doc.streams) IN
        IF c = 0 THEN rows = <<>>
        ELSE /\ \A j \in 1..c : ColumnOf(j).ok
             /\ \A j \in 1..c : Len(ColumnOf(j).val) = Len(rows)
             /\ \A i \in 1..Len(rows) :
                    /\ Len(rows[i]) = c
                    /\ \A j \in 1..c : rows[i][j] = ColumnOf(j).val[i]

\* C24 witness: at least two rows of at least two cells, not all alike
C24_Witness ==
    /\ pc = "expanded"
    /\ Len(doc.streams) >= 2
    /\ Len(rows) >= 2
    /\ rows[1] # rows[2]
    /\ rows[1][1] # rows[1][2]

\* C24 witness for the document without streams
C24_NoStreams == pc = "expanded" /\ doc.streams = <<>> /\ rows = <<>>

\* a toggle expression v1~...~vk*n, k >= 2, n >= 0, starts at token i+1
IsCountedToggleAt(i) ==
    /\ IsValueTok(TokAt(i))
    /\ Len(ToggleChain(i)) >= 2
    /\ TokAt(i + 2 * Len(ToggleChain(i)) - 1).k = "MultiplyOp"
    /\ TokAt(i + 2 * Len(ToggleChain(i))).k = "Integer"
    /\ TokAt(i + 2 * Len(ToggleChain(i))).n >= 0

ToggleCountAt(i) == TokAt(i + 2 * Len(ToggleChain(i))).n

\* the n values v_(i mod k), 0 <= i < n
IsCyclic(expansion, values, n) ==
    /\ Len(expansion) = n
    /\ \A i \in 0..(n - 1) : expansion[i + 1] = values[(i % Len(values)) + 1]

\* C25: v1~...~vk*n parses to the single Toggle{values: [v1..vk], count: n},
\* not to a Multiply around a toggle, and expands to exactly n values, the
\* i-th being v_(i mod k), whether or not n is a multiple of k or below k.
C25_CountedToggle ==
    [][/\ (pc = "streams" /\ IsCountedToggleAt(pos))
          => /\ pc' = "streams"
             /\ pos' = pos + 2 * Len(ToggleChain(pos)) + 1
             /\ cur'.current_stream =
                   Append(cur.current_stream, Toggle(ToggleChain(pos), ToggleCountAt(pos)))
             /\ LET e == expand_operator(LastOf(cur'.current_stream), <<>>)
                IN e.ok /\ IsCyclic(e.val, ToggleChain(pos), ToggleCountAt(pos))
       /\ pc' = "expanded"
          => \A j \in 1..Len(doc.streams) :
                (Len(doc.streams[j]) = 1 /\ doc.streams[j][1].t = "Toggle")
                => IsCyclic([i \in 1..Len(rows') |-> rows'[i][j]],
                            doc.streams[j][1].values, doc.streams[j][1].count)
      ]_vars

\* C25 witness: x~1~y*2 was read as Toggle{[x, 1, y], 2} and expanded to x, 1
C25_Witness ==
    /\ pc = "expanded"
    /\ doc.streams = <<<<Toggle(<<Text("x"), Text("1"), Text("y")>>, 2)>>>>
    /\ rows = <<<<Text("x")>>, <<Text("1")>>>>

\* some tile length k, 2 <= k <= n/2, k dividing n, reproduces values by
\* repetition of its first k values
HasTile(values) ==
    \E k \in 2..(Len(values) \div 2) : Len(values) % k = 0 /\ Tiles(values, k)

\* C26: detect returns None for every input that no tile length reproduces,
\* a plain progression such as 1..6 among them, and for every input shorter
\* than 4 values or shorter than min_pattern_length.
C26_NoneWithoutTile ==
    (det.called /\ (\/ ~HasTile(det.values)
                    \/ Len(det.values) < 4
                    \/ Len(det.values) < det.min_pattern_length))
        => ~det.result.found

\* C26 witness: detect was called on 1, 2, 3, 4, 5, 6 and returned None
C26_Witness ==
    /\ det.called
    /\ det.values = <<<<"1">>, <<"2">>, <<"3">>, <<"4">>, <<"5">>, <<"6">>>>
    /\ ~det.result.found

\* the loops of parse_document and parse_streams, in the order they run
ParserPhases == {"version", "dictionaries", "schema", "streams"}

PhaseRank(p) ==
    CASE p = "version" -> 1
      [] p = "dictionaries" -> 2
      [] p = "schema" -> 3
      [] p = "streams" -> 4
      [] OTHER -> 5

\* parse has been called and has not returned
ParseCalled == pc \in ParserPhases /\ CliParses

\* parse has returned a document or an error
ParseReturned == pc \in {"done", "error", "expanded", "expand_error"}

\* a step of the parser
ParserStep == pc \in ParserPhases /\ <<pos, pc, doc, cur, err>>' # <<pos, pc, doc, cur, err>>

\* what a step of the parser does to the position and to the loop it is in
ParserProgress ==
    /\ pos <= pos' /\ pos' <= Len(input)
    /\ PhaseRank(pc') >= PhaseRank(pc)
    /\ pc' = pc => pos' > pos
    /\ pos = Len(input) => PhaseRank(pc') > PhaseRank(pc)
    /\ (pc = "streams" /\ pc' = "streams" /\ TokAt(pos).k = "OpenParen") => pos' >= pos + 3

\* the same of every input of Spec, the deeply nested groups among them
ParserProgressAlways == [][ParserStep => ParserProgress]_vars

\* C27: parse terminates on every finite token stream: every turn of the
\* version, dictionary, schema, newline-skipping and stream loops consumes
\* at least one token or leaves the loop, a group is entered only past its
\* `(`, and from Eof on every loop is left at once; so every call of parse
\* returns a document or an error.
C27_ParseTerminates ==
    /\ [][ParserStep => ParserProgress]_vars
    /\ (ParseCalled ~> ParseReturned)

\* C27 witness: parse returned a document after a dictionary, a schema,
\* newlines and a group within a group, all tokens consumed
C27_Witness ==
    /\ pc = "done"
    /\ pos = Len(input)
    /\ DOMAIN doc.dictionaries # {}
    /\ doc.schema # <<>>
    /\ \E j \in 1..Len(doc.streams) : \E i \in 1..Len(doc.streams[j]) :
          /\ doc.streams[j][i].t = "Multiply"
          /\ doc.streams[j][i].value.t = "Multiply"
    /\ \E i \in 1..Len(input) : input[i].k = "Newline"

\* the integers written after a `*` in the input
WrittenCounts ==
    {input[i + 1].n : i \in {l \in 1..(Len(input) - 1) :
                                input[l].k = "MultiplyOp" /\ input[l + 1].k = "Integer"}}

\* every Multiply and Toggle of an operator has a count that was written,
\* or is a toggle of one full cycle
RECURSIVE CountsAsWritten(_)
CountsAsWritten(op) ==
    CASE op.t = "Multiply" -> op.count \in WrittenCounts /\ CountsAsWritten(op.value)
      [] op.t = "Toggle" -> op.count \in WrittenCounts \/ op.count = Len(op.values)
      [] OTHER -> TRUE

\* C28: the count of every Multiply and Toggle of a parsed document is the
\* integer written after `*`; an input whose stream section holds a
\* negative integer after `*` is rejected with a syntax error.
C28_NegativeCountRejected ==
    /\ ParseOk =>
          \A j \in 1..Len(doc.streams) : \A i \in 1..Len(doc.streams[j]) :
              CountsAsWritten(doc.streams[j][i])
    /\ (/\ pc \in {"done", "error", "expanded", "expand_error"}
        /\ doc.schema # <<>>
        /\ \E n \in WrittenCounts : n < 0)
       => (pc = "error" /\ err.kind = "AlsSyntaxError")

\* C29: when no schema column stands where the schema is expected, parse
\* returns Ok with a document of empty schema and no streams, whatever
\* tokens follow: they are neither parsed into streams nor reported.
C29_NoSchemaNoStreams ==
    [][/\ (/\ pc = "schema"
           /\ doc.schema = <<>>
           /\ ~AtInvalid(input, pos)
           /\ peek_token(input, pos).k # "SchemaColumn")
          => /\ pc' = "done"
             /\ err' = NoErr
             /\ pos' = pos
             /\ doc'.schema = <<>>
             /\ doc'.streams = <<>>
       /\ (ParseOk /\ doc.schema = <<>>)
          => (pc' \in {"done", "expanded"} /\ doc'.streams = <<>> /\ rows' = <<>>)
      ]_vars

\* C29 witness: the document of `1>3|x y` and the like, returned with the
\* stream content unread
C29_Witness ==
    /\ pc = "done"
    /\ doc.schema = <<>>
    /\ doc.streams = <<>>
    /\ \E i \in (pos + 1)..Len(input) : input[i].k = "RangeOp"
    /\ \E i \in (pos + 1)..Len(input) : input[i].k = "ColumnSeparator"

====
